---- MODULE Spec2Model ----
(***************************************************************************)
(* PlanParse: rule-based classification of construction-drawing pages.     *)
(*                                                                         *)
(*   src/main.py           OCR variant: DrawingClassifier and the          *)
(*                         /classify/image and /classify/pdf endpoints     *)
(*   src/app/classifier.py zone-weighted variant: classify_page            *)
(*   src/app/main.py       the /classify endpoint                          *)
(*                                                                         *)
(* Texts are sequences of one-character strings, so that substring search, *)
(* str.count, str.lower, str.upper and the drawing-number patterns are     *)
(* computed character by character as Python computes them.  What the      *)
(* text backends (pytesseract, pdfplumber) return is the input: a short    *)
(* sequence of fragments drawn from a vocabulary, spelled out by Spell.    *)
(* Confidences are kept in tenths (7 is 0.7), which is exact for every     *)
(* value the code can produce: min(score / 5.0, 1.0), + 0.2, 0.7 and 0.9.  *)
(***************************************************************************)
EXTENDS Integers, Sequences, FiniteSets, TLC

\* ------------------------------------------------------------- bounds
\* Fragments pytesseract returns for the whole image, at most.
MaxFull == 2
\* Fragments pytesseract returns for the title-block crop, at most.
MaxTitle == 1
\* Page numbers run from 1 to MaxPage.
MaxPage == 2
\* Words pdfplumber extracts from a page, at most.
MaxWords == 2
\* Pages of an uploaded document, at most.
MaxSheets == 3

None == "None"

\* ------------------------------------------------------------ spelling
\* The characters of every keyword of the two taxonomies and of every
\* fragment a backend may return.
Spell ==
       "cover" :> <<"c", "o", "v", "e", "r">>
    @@ "title sheet" :> <<"t", "i", "t", "l", "e", " ", "s", "h", "e", "e", "t">>
    @@ "project title" :> <<"p", "r", "o", "j", "e", "c", "t", " ", "t", "i", "t", "l", "e">>
    @@ "drawing index" :> <<"d", "r", "a", "w", "i", "n", "g", " ", "i", "n", "d", "e", "x">>
    @@ "sheet index" :> <<"s", "h", "e", "e", "t", " ", "i", "n", "d", "e", "x">>
    @@ "consultants" :> <<"c", "o", "n", "s", "u", "l", "t", "a", "n", "t", "s">>
    @@ "project team" :> <<"p", "r", "o", "j", "e", "c", "t", " ", "t", "e", "a", "m">>
    @@ "general notes" :> <<"g", "e", "n", "e", "r", "a", "l", " ", "n", "o", "t", "e", "s">>
    @@ "legend" :> <<"l", "e", "g", "e", "n", "d">>
    @@ "abbreviations" :> <<"a", "b", "b", "r", "e", "v", "i", "a", "t", "i", "o", "n", "s">>
    @@ "symbols" :> <<"s", "y", "m", "b", "o", "l", "s">>
    @@ "project information" :> <<"p", "r", "o", "j", "e", "c", "t", " ", "i", "n", "f", "o", "r", "m", "a", "t", "i", "o", "n">>
    @@ "code analysis" :> <<"c", "o", "d", "e", " ", "a", "n", "a", "l", "y", "s", "i", "s">>
    @@ "vicinity map" :> <<"v", "i", "c", "i", "n", "i", "t", "y", " ", "m", "a", "p">>
    @@ "site plan" :> <<"s", "i", "t", "e", " ", "p", "l", "a", "n">>
    @@ "plot plan" :> <<"p", "l", "o", "t", " ", "p", "l", "a", "n">>
    @@ "survey" :> <<"s", "u", "r", "v", "e", "y">>
    @@ "property line" :> <<"p", "r", "o", "p", "e", "r", "t", "y", " ", "l", "i", "n", "e">>
    @@ "setback" :> <<"s", "e", "t", "b", "a", "c", "k">>
    @@ "parking layout" :> <<"p", "a", "r", "k", "i", "n", "g", " ", "l", "a", "y", "o", "u", "t">>
    @@ "landscape" :> <<"l", "a", "n", "d", "s", "c", "a", "p", "e">>
    @@ "floor plan" :> <<"f", "l", "o", "o", "r", " ", "p", "l", "a", "n">>
    @@ "layout" :> <<"l", "a", "y", "o", "u", "t">>
    @@ "room schedule" :> <<"r", "o", "o", "m", " ", "s", "c", "h", "e", "d", "u", "l", "e">>
    @@ "door schedule" :> <<"d", "o", "o", "r", " ", "s", "c", "h", "e", "d", "u", "l", "e">>
    @@ "window schedule" :> <<"w", "i", "n", "d", "o", "w", " ", "s", "c", "h", "e", "d", "u", "l", "e">>
    @@ "partition" :> <<"p", "a", "r", "t", "i", "t", "i", "o", "n">>
    @@ "furniture plan" :> <<"f", "u", "r", "n", "i", "t", "u", "r", "e", " ", "p", "l", "a", "n">>
    @@ "elevation" :> <<"e", "l", "e", "v", "a", "t", "i", "o", "n">>
    @@ "exterior elevation" :> <<"e", "x", "t", "e", "r", "i", "o", "r", " ", "e", "l", "e", "v", "a", "t", "i", "o", "n">>
    @@ "building elevation" :> <<"b", "u", "i", "l", "d", "i", "n", "g", " ", "e", "l", "e", "v", "a", "t", "i", "o", "n">>
    @@ "north elevation" :> <<"n", "o", "r", "t", "h", " ", "e", "l", "e", "v", "a", "t", "i", "o", "n">>
    @@ "south elevation" :> <<"s", "o", "u", "t", "h", " ", "e", "l", "e", "v", "a", "t", "i", "o", "n">>
    @@ "east elevation" :> <<"e", "a", "s", "t", " ", "e", "l", "e", "v", "a", "t", "i", "o", "n">>
    @@ "west elevation" :> <<"w", "e", "s", "t", " ", "e", "l", "e", "v", "a", "t", "i", "o", "n">>
    @@ "section" :> <<"s", "e", "c", "t", "i", "o", "n">>
    @@ "building section" :> <<"b", "u", "i", "l", "d", "i", "n", "g", " ", "s", "e", "c", "t", "i", "o", "n">>
    @@ "wall section" :> <<"w", "a", "l", "l", " ", "s", "e", "c", "t", "i", "o", "n">>
    @@ "detail section" :> <<"d", "e", "t", "a", "i", "l", " ", "s", "e", "c", "t", "i", "o", "n">>
    @@ "cross section" :> <<"c", "r", "o", "s", "s", " ", "s", "e", "c", "t", "i", "o", "n">>
    @@ "roof plan" :> <<"r", "o", "o", "f", " ", "p", "l", "a", "n">>
    @@ "roof framing" :> <<"r", "o", "o", "f", " ", "f", "r", "a", "m", "i", "n", "g">>
    @@ "roof layout" :> <<"r", "o", "o", "f", " ", "l", "a", "y", "o", "u", "t">>
    @@ "roofing plan" :> <<"r", "o", "o", "f", "i", "n", "g", " ", "p", "l", "a", "n">>
    @@ "foundation" :> <<"f", "o", "u", "n", "d", "a", "t", "i", "o", "n">>
    @@ "footing" :> <<"f", "o", "o", "t", "i", "n", "g">>
    @@ "basement" :> <<"b", "a", "s", "e", "m", "e", "n", "t">>
    @@ "slab" :> <<"s", "l", "a", "b">>
    @@ "pier" :> <<"p", "i", "e", "r">>
    @@ "foundation plan" :> <<"f", "o", "u", "n", "d", "a", "t", "i", "o", "n", " ", "p", "l", "a", "n">>
    @@ "grading plan" :> <<"g", "r", "a", "d", "i", "n", "g", " ", "p", "l", "a", "n">>
    @@ "electrical" :> <<"e", "l", "e", "c", "t", "r", "i", "c", "a", "l">>
    @@ "power plan" :> <<"p", "o", "w", "e", "r", " ", "p", "l", "a", "n">>
    @@ "lighting" :> <<"l", "i", "g", "h", "t", "i", "n", "g">>
    @@ "panel schedule" :> <<"p", "a", "n", "e", "l", " ", "s", "c", "h", "e", "d", "u", "l", "e">>
    @@ "circuit" :> <<"c", "i", "r", "c", "u", "i", "t">>
    @@ "receptacle" :> <<"r", "e", "c", "e", "p", "t", "a", "c", "l", "e">>
    @@ "switch" :> <<"s", "w", "i", "t", "c", "h">>
    @@ "plumbing" :> <<"p", "l", "u", "m", "b", "i", "n", "g">>
    @@ "sanitary" :> <<"s", "a", "n", "i", "t", "a", "r", "y">>
    @@ "water" :> <<"w", "a", "t", "e", "r">>
    @@ "drainage" :> <<"d", "r", "a", "i", "n", "a", "g", "e">>
    @@ "fixture" :> <<"f", "i", "x", "t", "u", "r", "e">>
    @@ "domestic water" :> <<"d", "o", "m", "e", "s", "t", "i", "c", " ", "w", "a", "t", "e", "r">>
    @@ "waste" :> <<"w", "a", "s", "t", "e">>
    @@ "mechanical" :> <<"m", "e", "c", "h", "a", "n", "i", "c", "a", "l">>
    @@ "hvac" :> <<"h", "v", "a", "c">>
    @@ "duct" :> <<"d", "u", "c", "t">>
    @@ "ventilation" :> <<"v", "e", "n", "t", "i", "l", "a", "t", "i", "o", "n">>
    @@ "air conditioning" :> <<"a", "i", "r", " ", "c", "o", "n", "d", "i", "t", "i", "o", "n", "i", "n", "g">>
    @@ "heating" :> <<"h", "e", "a", "t", "i", "n", "g">>
    @@ "exhaust" :> <<"e", "x", "h", "a", "u", "s", "t">>
    @@ "structural" :> <<"s", "t", "r", "u", "c", "t", "u", "r", "a", "l">>
    @@ "framing" :> <<"f", "r", "a", "m", "i", "n", "g">>
    @@ "beam" :> <<"b", "e", "a", "m">>
    @@ "column" :> <<"c", "o", "l", "u", "m", "n">>
    @@ "truss" :> <<"t", "r", "u", "s", "s">>
    @@ "steel" :> <<"s", "t", "e", "e", "l">>
    @@ "concrete" :> <<"c", "o", "n", "c", "r", "e", "t", "e">>
    @@ "reinforcing" :> <<"r", "e", "i", "n", "f", "o", "r", "c", "i", "n", "g">>
    @@ "detail" :> <<"d", "e", "t", "a", "i", "l">>
    @@ "enlarged" :> <<"e", "n", "l", "a", "r", "g", "e", "d">>
    @@ "typical detail" :> <<"t", "y", "p", "i", "c", "a", "l", " ", "d", "e", "t", "a", "i", "l">>
    @@ "construction detail" :> <<"c", "o", "n", "s", "t", "r", "u", "c", "t", "i", "o", "n", " ", "d", "e", "t", "a", "i", "l">>
    @@ "schedule" :> <<"s", "c", "h", "e", "d", "u", "l", "e">>
    @@ "finish schedule" :> <<"f", "i", "n", "i", "s", "h", " ", "s", "c", "h", "e", "d", "u", "l", "e">>
    @@ "room finish" :> <<"r", "o", "o", "m", " ", "f", "i", "n", "i", "s", "h">>
    @@ "level" :> <<"l", "e", "v", "e", "l">>
    @@ "ground floor" :> <<"g", "r", "o", "u", "n", "d", " ", "f", "l", "o", "o", "r">>
    @@ "first floor" :> <<"f", "i", "r", "s", "t", " ", "f", "l", "o", "o", "r">>
    @@ "second floor" :> <<"s", "e", "c", "o", "n", "d", " ", "f", "l", "o", "o", "r">>
    @@ "slab on grade" :> <<"s", "l", "a", "b", " ", "o", "n", " ", "g", "r", "a", "d", "e">>
    @@ "general note" :> <<"g", "e", "n", "e", "r", "a", "l", " ", "n", "o", "t", "e">>
    @@ "general construction notes" :> <<"g", "e", "n", "e", "r", "a", "l", " ", "c", "o", "n", "s", "t", "r", "u", "c", "t", "i", "o", "n", " ", "n", "o", "t", "e", "s">>
    @@ "general information" :> <<"g", "e", "n", "e", "r", "a", "l", " ", "i", "n", "f", "o", "r", "m", "a", "t", "i", "o", "n">>
    @@ "notes and details" :> <<"n", "o", "t", "e", "s", " ", "a", "n", "d", " ", "d", "e", "t", "a", "i", "l", "s">>
    @@ "code requirements" :> <<"c", "o", "d", "e", " ", "r", "e", "q", "u", "i", "r", "e", "m", "e", "n", "t", "s">>
    @@ "index of drawings" :> <<"i", "n", "d", "e", "x", " ", "o", "f", " ", "d", "r", "a", "w", "i", "n", "g", "s">>
    @@ "drawing list" :> <<"d", "r", "a", "w", "i", "n", "g", " ", "l", "i", "s", "t">>
    @@ "COVER" :> <<"C", "O", "V", "E", "R">>
    @@ "beam" :> <<"b", "e", "a", "m">>
    @@ "A-101" :> <<"A", "-", "1", "0", "1">>
    @@ "S301" :> <<"S", "3", "0", "1">>
    @@ "X-1.1 \n" :> <<"X", "-", "1", ".", "1", " ", "\n">>
    @@ "concrete framing: steel beam column truss" :> <<"c", "o", "n", "c", "r", "e", "t", "e", " ", "f", "r", "a", "m", "i", "n", "g", ":", " ", "s", "t", "e", "e", "l", " ", "b", "e", "a", "m", " ", "c", "o", "l", "u", "m", "n", " ", "t", "r", "u", "s", "s">>
    @@ "ELEVATION" :> <<"E", "L", "E", "V", "A", "T", "I", "O", "N">>
    @@ "Level" :> <<"L", "e", "v", "e", "l">>
    @@ "x" :> <<"x">>
    @@ "x * 2000" :> [k \in 1..2000 |-> "x"]
    @@ "image/" :> <<"i", "m", "a", "g", "e", "/">>
    @@ "image/png" :> <<"i", "m", "a", "g", "e", "/", "p", "n", "g">>
    @@ "application/pdf" :> <<"a", "p", "p", "l", "i", "c", "a", "t", "i", "o", "n", "/", "p", "d", "f">>
    @@ ".pdf" :> <<".", "p", "d", "f">>
    @@ "plans.pdf" :> <<"p", "l", "a", "n", "s", ".", "p", "d", "f">>
    @@ "sheet.png" :> <<"s", "h", "e", "e", "t", ".", "p", "n", "g">>

\* ------------------------------------------------------ str operations
ToLower ==
    "A" :> "a" @@ "B" :> "b" @@ "C" :> "c" @@ "D" :> "d" @@ "E" :> "e" @@
    "F" :> "f" @@ "G" :> "g" @@ "H" :> "h" @@ "I" :> "i" @@ "J" :> "j" @@
    "K" :> "k" @@ "L" :> "l" @@ "M" :> "m" @@ "N" :> "n" @@ "O" :> "o" @@
    "P" :> "p" @@ "Q" :> "q" @@ "R" :> "r" @@ "S" :> "s" @@ "T" :> "t" @@
    "U" :> "u" @@ "V" :> "v" @@ "W" :> "w" @@ "X" :> "x" @@ "Y" :> "y" @@
    "Z" :> "z"

ToUpper ==
    "a" :> "A" @@ "b" :> "B" @@ "c" :> "C" @@ "d" :> "D" @@ "e" :> "E" @@
    "f" :> "F" @@ "g" :> "G" @@ "h" :> "H" @@ "i" :> "I" @@ "j" :> "J" @@
    "k" :> "K" @@ "l" :> "L" @@ "m" :> "M" @@ "n" :> "N" @@ "o" :> "O" @@
    "p" :> "P" @@ "q" :> "Q" @@ "r" :> "R" @@ "s" :> "S" @@ "t" :> "T" @@
    "u" :> "U" @@ "v" :> "V" @@ "w" :> "W" @@ "x" :> "X" @@ "y" :> "Y" @@
    "z" :> "Z"

\* str.lower() and str.upper(), on the ASCII alphabet of the model.  (SubSeq
\* over the whole of a sequence leaves it as it is and has it computed once.)
lower(s) ==
    SubSeq([i \in 1..Len(s) |-> IF s[i] \in DOMAIN ToLower THEN ToLower[s[i]] ELSE s[i]], 1, Len(s))

upper(s) ==
    SubSeq([i \in 1..Len(s) |-> IF s[i] \in DOMAIN ToUpper THEN ToUpper[s[i]] ELSE s[i]], 1, Len(s))

\* The string a backend returned: its fragments, concatenated.
RECURSIVE Flatten(_)
Flatten(frags) ==
    IF frags = <<>> THEN <<>> ELSE Spell[Head(frags)] \o Flatten(Tail(frags))

\* `sub in text`.
Contains(sub, text) ==
    \E i \in 1..(Len(text) - Len(sub) + 1) :
        text[i] = sub[1] /\ SubSeq(text, i, i + Len(sub) - 1) = sub

\* The positions at which sub occurs in text.
Occurrences(text, sub) ==
    {i \in 1..(Len(text) - Len(sub) + 1) :
        text[i] = sub[1] /\ SubSeq(text, i, i + Len(sub) - 1) = sub}

\* text.count(sub): the non-overlapping occurrences, scanning from the left:
\* the leftmost occurrence at or after `from` counts, and the scan resumes
\* behind it.
RECURSIVE CountFrom(_, _, _)
CountFrom(occ, len, from) ==
    LET later == {i \in occ : i >= from}
    IN  IF later = {} THEN 0
        ELSE LET first == CHOOSE i \in later : \A k \in later : i <= k
             IN  1 + CountFrom(occ, len, first + len)

count(text, sub) == CountFrom(Occurrences(text, sub), Len(sub), 1)

Min(a, b) == IF a < b THEN a ELSE b

RECURSIVE SumSeq(_)
SumSeq(s) == IF s = <<>> THEN 0 ELSE Head(s) + SumSeq(Tail(s))

SeqsUpTo(S, n) == UNION {[1..k -> S] : k \in 0..n}

\* ============================================================ src/main.py
\* self.keywords: a dict, so its iteration order is the order written here.
keywords == <<
    <<"COVER", <<"cover", "title sheet", "project title", "drawing index", "sheet index", "consultants", "project team">> >>,
    <<"PROJECT_INFO", <<"general notes", "legend", "abbreviations", "symbols", "project information", "code analysis", "vicinity map">> >>,
    <<"SITE_PLAN", <<"site plan", "plot plan", "survey", "property line", "setback", "parking layout", "landscape">> >>,
    <<"FLOOR_PLAN", <<"floor plan", "layout", "room schedule", "door schedule", "window schedule", "partition", "furniture plan">> >>,
    <<"ELEVATION", <<"elevation", "exterior elevation", "building elevation", "north elevation", "south elevation", "east elevation", "west elevation">> >>,
    <<"SECTION", <<"section", "building section", "wall section", "detail section", "cross section">> >>,
    <<"ROOF_PLAN", <<"roof plan", "roof framing", "roof layout", "roofing plan">> >>,
    <<"FOUNDATION", <<"foundation", "footing", "basement", "slab", "pier", "foundation plan", "grading plan">> >>,
    <<"ELECTRICAL", <<"electrical", "power plan", "lighting", "panel schedule", "circuit", "receptacle", "switch">> >>,
    <<"PLUMBING", <<"plumbing", "sanitary", "water", "drainage", "fixture", "domestic water", "waste">> >>,
    <<"MECHANICAL", <<"mechanical", "hvac", "duct", "ventilation", "air conditioning", "heating", "exhaust">> >>,
    <<"STRUCTURAL", <<"structural", "framing", "beam", "column", "truss", "steel", "concrete", "reinforcing">> >>,
    <<"DETAIL", <<"detail", "enlarged", "typical detail", "construction detail">> >>,
    <<"SCHEDULE", <<"schedule", "finish schedule", "door schedule", "window schedule", "room finish">> >> >>

\* self.drawing_prefixes.get(prefix): None for a letter the table lacks.
drawing_prefixes(prefix) ==
    CASE prefix = "A" -> "FLOOR_PLAN"
      [] prefix = "S" -> "STRUCTURAL"
      [] prefix = "E" -> "ELECTRICAL"
      [] prefix = "M" -> "MECHANICAL"
      [] prefix = "P" -> "PLUMBING"
      [] prefix = "L" -> "SITE_PLAN"
      [] prefix = "C" -> "SITE_PLAN"
      [] OTHER -> None

\* extract_text_from_image: the OCR of the whole image and of the title-block
\* crop, lower-cased, the title block twice.  (An OCR failure raises; the
\* endpoints model that.)
extract_text_from_image(image) ==
    lower(Flatten(image.full)) \o <<"\n">>
        \o lower(Flatten(image.title)) \o lower(Flatten(image.title))

\* classify_by_keywords, the scoring loop: per drawing type, the score and the
\* found keywords.  `if keyword in text` holds exactly when text.count(keyword)
\* is positive, the keywords being non-empty.
KeywordScores(text) ==
    [t \in 1..Len(keywords) |->
        LET kws == keywords[t][2]
            counts == [j \in 1..Len(kws) |-> count(text, Spell[kws[j]])]
        IN  [score |-> SumSeq(counts),
             found |-> LET hit == SelectSeq([j \in 1..Len(kws) |-> j], LAMBDA j : counts[j] > 0)
                       IN  [j \in 1..Len(hit) |-> kws[hit[j]]]]]

\* max(scores, key=scores.get): the first key, in the dict's order, of those
\* with the greatest score.
MaxKey(scores) ==
    CHOOSE t \in 1..Len(scores) :
        /\ \A u \in 1..Len(scores) : scores[u].score <= scores[t].score
        /\ \A u \in 1..(t - 1) : scores[u].score < scores[t].score

\* classify_by_keywords without its `if not any(scores.values())` return.
classify_by_keywords_noguard(text) ==
    LET scores == KeywordScores(text)
        best_type == MaxKey(scores)
    IN  [type |-> keywords[best_type][1],
         confidence |-> Min(2 * scores[best_type].score, 10),
         found |-> scores[best_type].found]

\* classify_by_keywords with max_score / 5.0 left uncapped.
classify_by_keywords_nocap(text) ==
    LET scores == KeywordScores(text)
    IN  IF \A t \in 1..Len(scores) : scores[t].score = 0
        THEN [type |-> "UNKNOWN", confidence |-> 0, found |-> <<>>]
        ELSE LET best_type == MaxKey(scores)
             IN  [type |-> keywords[best_type][1],
                  confidence |-> 2 * scores[best_type].score,
                  found |-> scores[best_type].found]

classify_by_keywords(text) ==
    LET scores == KeywordScores(text)
    IN  IF \A t \in 1..Len(scores) : scores[t].score = 0
        THEN [type |-> "UNKNOWN", confidence |-> 0, found |-> <<>>]
        ELSE LET best_type == MaxKey(scores)
                 max_score == scores[best_type].score
             IN  [type |-> keywords[best_type][1],
                  confidence |-> Min(2 * max_score, 10),
                  found |-> scores[best_type].found]


\* The patterns of extract_drawing_number, a character class or a literal per
\* position, in the order tried.
patterns ==
    << <<"[A-Z]", "-", "\\d", "\\d", "\\d">>,
       <<"[A-Z]", "\\d", "\\d", "\\d">>,
       <<"[A-Z]", "-", "\\d", "\\.", "\\d">> >>

ClassMatches(cls, c) ==
    CASE cls = "[A-Z]" -> c \in DOMAIN ToLower
      [] cls = "\\d" -> c \in {"0", "1", "2", "3", "4", "5", "6", "7", "8", "9"}
      [] cls = "\\." -> c = "."
      [] OTHER -> c = cls

MatchesAt(pattern, s, i) ==
    /\ i + Len(pattern) - 1 <= Len(s)
    /\ \A j \in 1..Len(pattern) : ClassMatches(pattern[j], s[i + j - 1])

\* An Optional[str] that is None.  A match of these patterns is never empty,
\* and the code tests a drawing number only for truth, so the empty sequence
\* stands for None.
NoMatch == <<>>

\* re.search(pattern, s): the leftmost match, as match.group(0), or NoMatch.
re_search(pattern, s) ==
    IF \E i \in 1..Len(s) : MatchesAt(pattern, s, i)
    THEN LET i == CHOOSE i \in 1..Len(s) :
                      /\ MatchesAt(pattern, s, i)
                      /\ \A k \in 1..(i - 1) : ~MatchesAt(pattern, s, k)
         IN  SubSeq(s, i, i + Len(pattern) - 1)
    ELSE NoMatch

\* extract_drawing_number: the first pattern with a match anywhere in
\* text.upper() wins.
RECURSIVE FirstPattern(_, _)
FirstPattern(p, s) ==
    IF p > Len(patterns) THEN NoMatch
    ELSE LET match == re_search(patterns[p], s)
         IN  IF match # NoMatch THEN match ELSE FirstPattern(p + 1, s)

extract_drawing_number(text) == FirstPattern(1, upper(text))

classify_by_drawing_number(drawing_num) ==
    IF drawing_num # NoMatch /\ Len(drawing_num) > 0
    THEN drawing_prefixes(upper(<<drawing_num[1]>>)[1])
    ELSE None

\* classify_page, lines 238-250: the text, the drawing number, the keyword
\* result and the prefix type.
classify_page_locals(image) ==
    LET text == extract_text_from_image(image)
        drawing_num == extract_drawing_number(text)
        kw == classify_by_keywords(text)
    IN  [text |-> text,
         drawing_num |-> drawing_num,
         keyword_type |-> kw.type,
         keyword_confidence |-> kw.confidence,
         keywords |-> kw.found,
         prefix_type |-> IF drawing_num # NoMatch
                         THEN classify_by_drawing_number(drawing_num)
                         ELSE None]

\* Combine without the boost of an agreeing prefix.
Combine_NoBoost(l) ==
    IF l.prefix_type # None /\ l.keyword_confidence < 5
    THEN [final_type |-> l.prefix_type, final_confidence |-> 7]
    ELSE [final_type |-> l.keyword_type, final_confidence |-> l.keyword_confidence]

\* Combine with the prefix overriding keyword confidences below 0.7.
Combine_Threshold(l) ==
    IF l.prefix_type # None /\ l.keyword_confidence < 7
    THEN [final_type |-> l.prefix_type, final_confidence |-> 7]
    ELSE IF l.prefix_type = l.keyword_type
         THEN [final_type |-> l.keyword_type,
               final_confidence |-> Min(l.keyword_confidence + 2, 10)]
         ELSE [final_type |-> l.keyword_type,
               final_confidence |-> l.keyword_confidence]

\* Combine with the boost left uncapped.
Combine_NoCap(l) ==
    IF l.prefix_type # None /\ l.keyword_confidence < 5
    THEN [final_type |-> l.prefix_type, final_confidence |-> 7]
    ELSE IF l.prefix_type = l.keyword_type
         THEN [final_type |-> l.keyword_type,
               final_confidence |-> l.keyword_confidence + 2]
         ELSE [final_type |-> l.keyword_type,
               final_confidence |-> l.keyword_confidence]

\* classify_page, lines 252-261: combine the prefix and the keyword results.
Combine(l) ==
    IF l.prefix_type # None /\ l.keyword_confidence < 5
    THEN [final_type |-> l.prefix_type, final_confidence |-> 7]
    ELSE IF l.prefix_type = l.keyword_type
         THEN [final_type |-> l.keyword_type,
               final_confidence |-> Min(l.keyword_confidence + 2, 10)]
         ELSE [final_type |-> l.keyword_type,
               final_confidence |-> l.keyword_confidence]

\* CoverRule without its test of the page number.
CoverRule_AnyPage(l, page_num, combined) ==
    IF Contains(Spell["cover"], l.text)
    THEN [final_type |-> "COVER", final_confidence |-> 9]
    ELSE combined

\* classify_page, lines 263-266: the first page is likely the cover.
CoverRule(l, page_num, combined) ==
    IF page_num = 1 /\ Contains(Spell["cover"], l.text)
    THEN [final_type |-> "COVER", final_confidence |-> 9]
    ELSE combined

\* keywords[:5]
Top5(s) == SubSeq(s, 1, Min(5, Len(s)))

\* classify_page, lines 268-274: the ClassificationResult.
ClassificationResult(l, page_num) ==
    LET final == CoverRule(l, page_num, Combine(l))
    IN  [page_number |-> page_num,
         classification |-> final.final_type,
         confidence |-> final.final_confidence,
         keywords_found |-> Top5(l.keywords),
         drawing_number |-> l.drawing_num]

classify_page(image, page_num) ==
    ClassificationResult(classify_page_locals(image), page_num)

\* ================================================= src/app/classifier.py
\* KEYWORDS: a dict, so its iteration order is the order written here.
KEYWORDS == <<
    <<"FLOOR_PLAN", <<"floor plan", "level", "ground floor", "first floor", "second floor">> >>,
    <<"ELEVATION", <<"elevation", "north elevation", "south elevation", "east elevation", "west elevation">> >>,
    <<"FOUNDATION", <<"foundation plan", "foundation", "footing", "slab on grade">> >>,
    <<"GENERAL_NOTES", <<"general notes", "general note", "general construction notes", "general information", "notes and details", "abbreviations", "symbols", "legend", "code requirements">> >>,
    <<"LEDGER", <<"sheet index", "index of drawings", "drawing list", "schedule">> >> >>

\* The full-page text length above which a page counts as text-dense.
DenseLength == 2000

\* The score of a tag found in a title-block zone, and in the full-page text.
ZoneWeight == 3

FullWeight == 1

\* The score a text-dense page adds to GENERAL_NOTES.
DenseBonus == 3

\* " ".join(words)
RECURSIVE Join(_)
Join(words) ==
    IF words = <<>> THEN <<>>
    ELSE IF Len(words) = 1 THEN Spell[words[1]]
    ELSE Spell[words[1]] \o <<" ">> \o Join(Tail(words))

\* extract_words_text: the words pdfplumber extracts, joined and lower-cased
\* (no words, or None, gives the empty string).
extract_words_text(page) == lower(Join(page.words))

\* The zones of extract_zones, in the order of its dict.
ZoneNames == <<"bottom", "bottom_right", "right", "left">>

\* extract_zones: each zone's text, lower-cased; `or ""` turns a zone without
\* text (None) into the empty string, which the empty fragment list stands for.
extract_zones(page) ==
    [z \in 1..Len(ZoneNames) |-> lower(Flatten(page.zones[ZoneNames[z]]))]

\* The (category, tag) pairs in the order `for category, tags in
\* KEYWORDS.items(): for tag in tags` visits them.
RECURSIVE TagPairsFrom(_)
TagPairsFrom(c) ==
    IF c > Len(KEYWORDS) THEN <<>>
    ELSE [j \in 1..Len(KEYWORDS[c][2]) |-> <<KEYWORDS[c][1], KEYWORDS[c][2][j]>>]
             \o TagPairsFrom(c + 1)

TagPairs == TagPairsFrom(1)

\* One pass of the nested loops over a text: the categories whose score is
\* raised, one entry per tag found, in the order the loops raise them.
Hits(text, weight) ==
    LET hit == SelectSeq(TagPairs, LAMBDA p : Contains(Spell[p[2]], text))
    IN  [j \in 1..Len(hit) |-> [category |-> hit[j][1], weight |-> weight]]

\* scores[category] += weight on a defaultdict(int): a category enters the
\* dict, at its end, the first time its score is raised.
AddScore(scores, category, weight) ==
    IF \E k \in 1..Len(scores) : scores[k].category = category
    THEN [k \in 1..Len(scores) |->
             IF scores[k].category = category
             THEN [scores[k] EXCEPT !.score = @ + weight]
             ELSE scores[k]]
    ELSE Append(scores, [category |-> category, score |-> weight])

RECURSIVE Accumulate(_, _)
Accumulate(scores, hits) ==
    IF hits = <<>> THEN scores
    ELSE Accumulate(AddScore(scores, Head(hits).category, Head(hits).weight), Tail(hits))

\* PageScores with `>=` for `>` in the test of the text's length.
PageScores_GE(page) ==
    LET zone_text == extract_zones(page)
        full_text == extract_words_text(page)
        zone_hits == Hits(zone_text[1], ZoneWeight) \o Hits(zone_text[2], ZoneWeight)
                         \o Hits(zone_text[3], ZoneWeight) \o Hits(zone_text[4], ZoneWeight)
        dense == IF Len(full_text) >= DenseLength
                 THEN <<[category |-> "GENERAL_NOTES", weight |-> DenseBonus]>>
                 ELSE <<>>
    IN  Accumulate(<<>>, zone_hits \o Hits(full_text, FullWeight) \o dense)

\* classify_page, lines 87-104: the scores dict, in insertion order.
PageScores(page) ==
    LET zone_text == extract_zones(page)
        full_text == extract_words_text(page)
        zone_hits == Hits(zone_text[1], ZoneWeight) \o Hits(zone_text[2], ZoneWeight)
                         \o Hits(zone_text[3], ZoneWeight) \o Hits(zone_text[4], ZoneWeight)
        dense == IF Len(full_text) > DenseLength
                 THEN <<[category |-> "GENERAL_NOTES", weight |-> DenseBonus]>>
                 ELSE <<>>
    IN  Accumulate(<<>>, zone_hits \o Hits(full_text, FullWeight) \o dense)

\* max(scores, key=scores.get): the first key, in insertion order, of those
\* with the greatest score.
BestCategory(scores) ==
    LET k == CHOOSE k \in 1..Len(scores) :
                 /\ \A u \in 1..Len(scores) : scores[u].score <= scores[k].score
                 /\ \A u \in 1..(k - 1) : scores[u].score < scores[k].score
    IN  scores[k].category

\* classify_page of app/classifier.py
zone_classify_page(page) ==
    LET scores == PageScores(page)
    IN  IF scores = <<>> THEN "UNKNOWN" ELSE BestCategory(scores)

\* ===================================================== the endpoints
\* s.startswith(prefix) and s.endswith(suffix)
startswith(s, prefix) == Len(prefix) <= Len(s) /\ SubSeq(s, 1, Len(prefix)) = prefix

endswith(s, suffix) ==
    Len(suffix) <= Len(s) /\ SubSeq(s, Len(s) - Len(suffix) + 1, Len(s)) = suffix

\* The first check of each handler, made before its try block: whether the
\* upload is of the kind the endpoint takes.
AcceptsUpload(ep, up) ==
    CASE ep = "/classify/image" -> startswith(Spell[up.content_type], Spell["image/"])
      [] ep = "/classify/pdf" -> up.content_type = "application/pdf"
      [] ep = "/classify" -> endswith(Spell[up.filename], Spell[".pdf"])

RejectDetail(ep) ==
    IF ep = "/classify/image" THEN "File must be an image" ELSE "File must be a PDF"

\* extract_text_from_image with its try/except: a failure of the crop or of
\* pytesseract is raised as HTTPException(500).
extract_text_outcome(sheet) ==
    IF sheet.ok
    THEN [raised |-> FALSE, value |-> extract_text_from_image(sheet.image)]
    ELSE [raised |-> TRUE, status |-> 500, detail |-> "OCR failed"]

\* What the handler's loop body evaluates for one page: classify_page of
\* main.py (with the page number) or of app/classifier.py, or the exception
\* the text backend raised in it.
PageOutcome(ep, sheet, n) ==
    IF ep = "/classify"
    THEN IF sheet.ok
         THEN [raised |-> FALSE,
               value |-> [page_number |-> n,
                          classification |-> zone_classify_page(sheet.page)]]
         ELSE [raised |-> TRUE, status |-> 500, detail |-> "pdfplumber failed"]
    ELSE LET text == extract_text_outcome(sheet)
         IN  IF text.raised THEN text
             ELSE [raised |-> FALSE, value |-> classify_page(sheet.image, n)]

\* OnException returning what the loop has classified so far.
OnException_Partial(ep, partial, exc) == [status |-> 200, body |-> partial]

\* `except Exception as e: raise HTTPException(status_code=500, ...)`: what
\* the request returns when its try block raised.
OnException(ep, partial, exc) ==
    [status |-> 500,
     detail |-> CASE ep = "/classify/image" -> "Classification failed"
                  [] ep = "/classify/pdf" -> "PDF processing failed"
                  [] ep = "/classify" -> "Error",
     cause |-> exc.detail]

\* The value the handler returns when every page was classified.
OnSuccess(ep, up, done) ==
    [status |-> 200,
     body |-> CASE ep = "/classify/image" -> done[1]
                [] ep = "/classify/pdf" -> done
                [] ep = "/classify" -> [filename |-> up.filename,
                                        total_pages |-> Len(up.pages),
                                        results |-> done]]

\* ------------------------------------------------------------ the state
VARIABLES
    image,      \* what pytesseract returns for the page: [full, title]
    page_num,   \* the page number classify_page is called with
    pc,         \* where the call or the request stands
    locals,     \* classify_page's local variables, once it has run
    result,     \* the ClassificationResult classify_page returned
    page,       \* what pdfplumber returns for the page: [zones, words]
    label,      \* the label classify_page of app/classifier.py returned
    endpoint,   \* the endpoint a request was posted to
    upload,     \* the uploaded file: [content_type, filename, opens, pages]
    i,          \* the page the handler's loop is at
    results,    \* the handler's list of results so far
    response    \* what the request returned

vars == <<image, page_num, pc, locals, result, page, label,
          endpoint, upload, i, results, response>>

pageVars == <<image, page_num, locals, result>>

zoneVars == <<page, label>>

requestVars == <<endpoint, upload, i, results, response>>

NoImage == [full |-> <<>>, title |-> <<>>]

NoPage == [zones |-> [z \in {"bottom", "bottom_right", "right", "left"} |-> <<>>],
           words |-> <<>>]

PageIdle == image = NoImage /\ page_num = 1 /\ locals = None /\ result = None

ZoneIdle == page = NoPage /\ label = None

RequestIdle ==
    endpoint = None /\ upload = None /\ i = 0 /\ results = <<>> /\ response = None

\* ------------------------------------- Spec: classify_page of main.py
\* What pytesseract may return, as written on the sheet (str.lower comes after).
Vocabulary ==
    {"COVER", "beam", "A-101", "S301", "X-1.1 \n",
     "concrete framing: steel beam column truss"}

Images == [full : SeqsUpTo(Vocabulary, MaxFull), title : SeqsUpTo(Vocabulary, MaxTitle)]

Init ==
    /\ image \in Images
    /\ page_num \in 1..MaxPage
    /\ pc = "call"
    /\ locals = None
    /\ result = None
    /\ ZoneIdle
    /\ RequestIdle

\* classifier.classify_page(image, page_num)
ClassifyPage ==
    /\ pc = "call"
    /\ pc' = "return"
    /\ LET l == classify_page_locals(image)
       IN  /\ locals' = l
           /\ result' = ClassificationResult(l, page_num)
    /\ UNCHANGED <<image, page_num, zoneVars, requestVars>>

Next == ClassifyPage

Spec == Init /\ [][Next]_vars

\* ------------------------- SpecZone: classify_page of app/classifier.py
\* What pdfplumber may return for a title-block zone.
ZoneTexts == {<<>>, <<"ELEVATION">>, <<"Level">>}

\* The words pdfplumber may extract from the page; "x * 2000" is one word of
\* 2000 characters, without a tag.
WordVocabulary == {"x * 2000", "x", "Level"}

Pages ==
    [zones : [{"bottom", "bottom_right", "right", "left"} -> ZoneTexts],
     words : SeqsUpTo(WordVocabulary, MaxWords)]

InitZone ==
    /\ page \in Pages
    /\ pc = "call"
    /\ label = None
    /\ PageIdle
    /\ RequestIdle

\* classify_page(page)
ZoneClassifyPage ==
    /\ pc = "call"
    /\ pc' = "return"
    /\ label' = zone_classify_page(page)
    /\ UNCHANGED <<page, pageVars, requestVars>>

NextZone == ZoneClassifyPage

SpecZone == InitZone /\ [][NextZone]_vars

\* --------------------------------------------- SpecReq: the endpoints
Endpoints == {"/classify/image", "/classify/pdf", "/classify"}

\* A sheet of an uploaded document: whether the text backend can process it,
\* what pytesseract returns for it and what pdfplumber returns for it.
Sheets ==
    {[ok |-> o, image |-> NoImage, page |-> NoPage] : o \in BOOLEAN}
        \cup
    {[ok |-> o,
      image |-> [full |-> <<"beam", "S301">>, title |-> <<"beam">>],
      page |-> [NoPage EXCEPT !.zones["bottom"] = <<"ELEVATION">>]] : o \in BOOLEAN}

Uploads ==
    [content_type : {"image/png", "application/pdf"},
     filename : {"plans.pdf", "sheet.png"},
     opens : BOOLEAN,
     pages : SeqsUpTo(Sheets, MaxSheets)]

InitReq ==
    /\ endpoint \in Endpoints
    /\ upload \in Uploads
    /\ endpoint = "/classify/image" => Len(upload.pages) = 1
    /\ pc = "received"
    /\ i = 0
    /\ results = <<>>
    /\ response = None
    /\ PageIdle
    /\ ZoneIdle

\* The handler's check of the upload's kind: HTTPException(400), raised
\* outside the try block, or on to reading the file.
CheckUpload ==
    /\ pc = "received"
    /\ IF AcceptsUpload(endpoint, upload)
       THEN pc' = "open" /\ UNCHANGED response
       ELSE /\ pc' = "responded"
            /\ response' = [status |-> 400, detail |-> RejectDetail(endpoint)]
    /\ UNCHANGED <<endpoint, upload, i, results, pageVars, zoneVars>>

\* Image.open, pdf2image.convert_from_bytes or pdfplumber.open: inside the
\* try block, so a file that does not open ends the request with 500.
OpenUpload ==
    /\ pc = "open"
    /\ IF upload.opens
       THEN pc' = "loop" /\ i' = 1 /\ UNCHANGED response
       ELSE /\ pc' = "responded"
            /\ response' = OnException(endpoint, results, [detail |-> "cannot open"])
            /\ UNCHANGED i
    /\ UNCHANGED <<endpoint, upload, results, pageVars, zoneVars>>

\* One turn of the handler's loop (the one call of /classify/image): the page
\* is classified and its result appended, or the exception ends the request.
ClassifyNextPage ==
    /\ pc = "loop"
    /\ i <= Len(upload.pages)
    /\ LET outcome == PageOutcome(endpoint, upload.pages[i], i)
       IN  IF outcome.raised
           THEN /\ pc' = "responded"
                /\ response' = OnException(endpoint, results, outcome)
                /\ UNCHANGED <<i, results>>
           ELSE /\ results' = Append(results, outcome.value)
                /\ i' = i + 1
                /\ UNCHANGED <<pc, response>>
    /\ UNCHANGED <<endpoint, upload, pageVars, zoneVars>>

\* The handler returns.
Return ==
    /\ pc = "loop"
    /\ i > Len(upload.pages)
    /\ pc' = "responded"
    /\ response' = OnSuccess(endpoint, upload, results)
    /\ UNCHANGED <<endpoint, upload, i, results, pageVars, zoneVars>>

NextReq == CheckUpload \/ OpenUpload \/ ClassifyNextPage \/ Return

SpecReq == InitReq /\ [][NextReq]_vars

\* ================================================================ claims
\* Helpers of the claims, stated on the text itself, not on the classifier's
\* own bookkeeping.

\* No keyword of any category of main.py occurs in the text.
NoKeyword(text) ==
    \A t \in 1..Len(keywords) : \A k \in 1..Len(keywords[t][2]) :
        ~Contains(Spell[keywords[t][2][k]], text)

\* The category the prefix table gives a returned drawing number, or None.
PrefixCategory(drawing_number) ==
    IF drawing_number = NoMatch THEN None ELSE drawing_prefixes(drawing_number[1])

\* The page-1 cover rule applies to the call.
CoverCase == page_num = 1 /\ Contains(Spell["cover"], locals.text)

\* C1 as stated: a page text without any keyword (empty and whitespace-only
\* texts among them) is classified UNKNOWN with confidence 0.0 and no
\* keywords found, for every page number.
C1_NoKeywordIsUnknown ==
    (pc = "return" /\ NoKeyword(locals.text)) =>
        /\ result.classification = "UNKNOWN"
        /\ result.confidence = 0
        /\ result.keywords_found = <<>>

\* C1 as amended: a page text without any keyword is classified UNKNOWN with
\* confidence 0.0 and no keywords found unless a drawing number with a prefix
\* letter of the prefix table is extracted from it; then the category is the
\* prefix-mapped one, with confidence 0.7 and no keywords found.
C1_NoSignalIsUnknown ==
    (pc = "return" /\ NoKeyword(locals.text)) =>
        /\ result.keywords_found = <<>>
        /\ PrefixCategory(result.drawing_number) = None =>
               result.classification = "UNKNOWN" /\ result.confidence = 0
        /\ PrefixCategory(result.drawing_number) # None =>
               /\ result.classification = PrefixCategory(result.drawing_number)
               /\ result.confidence = 7

\* C1's case: a text of whitespace and a drawing number whose letter the
\* prefix table lacks, classified UNKNOWN.
C1_Witness ==
    /\ pc = "return"
    /\ NoKeyword(locals.text)
    /\ result.drawing_number # NoMatch
    /\ Contains(<<" ">>, locals.text)
    /\ result.classification = "UNKNOWN"

\* C2: on page 1 a text containing "cover" is classified COVER with
\* confidence 0.9 whatever the keywords and the drawing number; on any other
\* page the result is the combined prefix and keyword result, untouched by
\* the cover rule.
C2_CoverOnPageOne ==
    pc = "return" =>
        /\ (page_num = 1 /\ Contains(Spell["cover"], locals.text)) =>
               result.classification = "COVER" /\ result.confidence = 9
        /\ page_num # 1 =>
               /\ result.classification = Combine(locals).final_type
               /\ result.confidence = Combine(locals).final_confidence

\* C2's case: page 1, "cover" in the text, a keyword result that is another
\* category with confidence 1.0 and a drawing number of the prefix table.
C2_Witness ==
    /\ pc = "return"
    /\ CoverCase
    /\ locals.keyword_type # "COVER"
    /\ locals.keyword_confidence = 10
    /\ locals.prefix_type # None
    /\ result.classification = "COVER"

\* The fragments that add keyword occurrences to a text.
KeywordFragments == {f \in Vocabulary : ~NoKeyword(lower(Spell[f]))}

\* The call's text with one more fragment in the OCR of the whole image.
Longer(f) == [image EXCEPT !.full = Append(@, f)]

\* C3 as stated: with the page number and the drawing number held equal, more
\* keyword occurrences in the text never lower the final confidence, which
\* never exceeds 1.0.
C3_FinalConfidenceMonotonic ==
    pc = "return" =>
        /\ result.confidence <= 10
        /\ \A f \in KeywordFragments :
               LET more == classify_page_locals(Longer(f))
               IN  more.drawing_num = locals.drawing_num =>
                       ClassificationResult(more, page_num).confidence >= result.confidence

\* C3 as amended: the keyword confidence of classify_by_keywords never drops
\* with more keyword occurrences and is 1.0 from a best score of 5 on (never
\* more); the final confidence never drops either when the page-1 cover rule
\* does not apply to the longer text and the drawing number's prefix maps to
\* no category or to the keyword-chosen category of the longer text.
C3_KeywordConfidenceMonotonic ==
    pc = "return" =>
        /\ locals.keyword_confidence <= 10
        /\ \A f \in KeywordFragments :
               LET more == classify_page_locals(Longer(f))
               IN  /\ more.keyword_confidence >= locals.keyword_confidence
                   /\ locals.keyword_confidence = 10 => more.keyword_confidence = 10
                   /\ ( /\ more.drawing_num = locals.drawing_num
                        /\ ~(page_num = 1 /\ Contains(Spell["cover"], more.text))
                        /\ more.prefix_type \in {None, more.keyword_type} )
                          => ClassificationResult(more, page_num).confidence
                                 >= result.confidence

\* C3's case: a drawing number of the prefix table, a weak keyword result of
\* another category (final confidence 0.7), and one more occurrence that makes
\* the keyword result strong.
C3_Witness ==
    /\ pc = "return"
    /\ locals.prefix_type # None
    /\ locals.keyword_type \notin {"UNKNOWN", locals.prefix_type}
    /\ locals.keyword_confidence = 4
    /\ result.confidence = 7
    /\ \E f \in KeywordFragments :
           LET more == classify_page_locals(Longer(f))
           IN  /\ more.drawing_num = locals.drawing_num
               /\ more.keyword_type = locals.keyword_type
               /\ more.keyword_confidence = 6

\* The keywords of a category that occur in the text, in the taxonomy's order.
FoundOf(type, text) ==
    IF \E t \in 1..Len(keywords) : keywords[t][1] = type
    THEN LET t == CHOOSE t \in 1..Len(keywords) : keywords[t][1] = type
         IN  SelectSeq(keywords[t][2], LAMBDA k : Contains(Spell[k], text))
    ELSE <<>>

\* C4 as stated: keywords_found is the list of matched keywords of the
\* category returned (after the prefix and the cover overrides), in the
\* taxonomy's order, cut to its first 5 entries.
C4_EvidenceOfFinalCategory ==
    pc = "return" =>
        result.keywords_found = Top5(FoundOf(result.classification, locals.text))

\* C5: outside the page-1 cover rule the category differs from the keyword
\* category only if a drawing number with a prefix of the table was extracted
\* and the keyword confidence is below 0.5; in that case the category is the
\* prefix-mapped one and the confidence 0.7; a keyword confidence of 0.5 or
\* more with a prefix of another category returns the keyword result as is.
C5_PrefixOverride ==
    (pc = "return" /\ ~CoverCase) =>
        LET prefix == PrefixCategory(result.drawing_number)
        IN  /\ result.classification # locals.keyword_type =>
                   prefix # None /\ locals.keyword_confidence < 5
            /\ (prefix # None /\ locals.keyword_confidence < 5) =>
                   result.classification = prefix /\ result.confidence = 7
            /\ (prefix # None /\ prefix # locals.keyword_type
                    /\ locals.keyword_confidence >= 5) =>
                   /\ result.classification = locals.keyword_type
                   /\ result.confidence = locals.keyword_confidence

\* C5's case: a strong keyword result and a drawing number whose prefix maps
\* to another category; the keyword result is returned.
C5_Witness ==
    /\ pc = "return"
    /\ ~CoverCase
    /\ PrefixCategory(result.drawing_number) \notin {None, locals.keyword_type}
    /\ locals.keyword_confidence = 6
    /\ result.classification = locals.keyword_type
    /\ result.confidence = 6

\* C6: outside the page-1 cover rule, a prefix-mapped category equal to the
\* keyword category with keyword confidence of 0.5 or more keeps the category
\* and returns min(keyword confidence + 0.2, 1.0).
C6_AgreementBoost ==
    ( /\ pc = "return"
      /\ ~CoverCase
      /\ PrefixCategory(result.drawing_number) = locals.keyword_type
      /\ locals.keyword_confidence >= 5 ) =>
        /\ result.classification = locals.keyword_type
        /\ result.confidence = Min(locals.keyword_confidence + 2, 10)

\* C6's case: agreement at keyword confidence 1.0, which stays 1.0.
C6_Witness ==
    /\ pc = "return"
    /\ ~CoverCase
    /\ PrefixCategory(result.drawing_number) = locals.keyword_type
    /\ locals.keyword_confidence = 10
    /\ result.confidence = 10

\* C7: every result carries a confidence between 0 and 1, and an UNKNOWN
\* result carries confidence 0.0.
C7_ConfidenceRange ==
    pc = "return" =>
        /\ result.confidence >= 0
        /\ result.confidence <= 10
        /\ result.classification = "UNKNOWN" => result.confidence = 0

\* C7's case: a page whose best score is far beyond 5 and whose drawing
\* number agrees, so that both the normalisation and the boost reach their
\* cap.
C7_Witness ==
    /\ pc = "return"
    /\ \E t \in 1..Len(keywords) : KeywordScores(locals.text)[t].score >= 12
    /\ locals.prefix_type = locals.keyword_type
    /\ result.confidence = 10

\* No tag of any category of app/classifier.py occurs in the text.
NoTag(text) == \A p \in 1..Len(TagPairs) : ~Contains(Spell[TagPairs[p][2]], text)

\* The zone-weighted call has returned.
ZoneReturned == pc = "return" /\ label # None

\* C8: a page without any tag in any zone or in its full-page text is
\* labelled GENERAL_NOTES when the full-page text is longer than 2000
\* characters and UNKNOWN when it has 2000 characters or fewer.
C8_DenseTextIsGeneralNotes ==
    ( /\ ZoneReturned
      /\ \A z \in 1..Len(ZoneNames) : NoTag(lower(Flatten(page.zones[ZoneNames[z]])))
      /\ NoTag(lower(Join(page.words))) ) =>
        IF Len(Join(page.words)) > 2000
        THEN label = "GENERAL_NOTES"
        ELSE label = "UNKNOWN"

\* C8's case: a full-page text of 2002 characters without a tag, no text in
\* any zone, labelled GENERAL_NOTES.
C8_Witness ==
    /\ ZoneReturned
    /\ \A z \in 1..Len(ZoneNames) : page.zones[ZoneNames[z]] = <<>>
    /\ page.words = <<"x * 2000", "x">>
    /\ label = "GENERAL_NOTES"

\* C9: a request whose upload holds a page the text backend fails on ends in
\* an error response, for each of the three endpoints and a failure at any
\* page: the response carries no results, and the handler's list never holds
\* a result, UNKNOWN or other, for a page the backend failed on.
C9_BackendFailureIsAnError ==
    (endpoint # None) =>
        /\ \A k \in 1..Len(results) : upload.pages[k].ok
        /\ (pc = "responded" /\ \E k \in 1..Len(upload.pages) : ~upload.pages[k].ok) =>
               response.status = 500 \/ response.status = 400

\* C9's case: the backend fails on the third page of a document whose first
\* two pages were classified, and the request ends with status 500.
C9_Witness ==
    /\ endpoint # None
    /\ pc = "responded"
    /\ Len(upload.pages) = 3
    /\ Len(results) = 2
    /\ ~upload.pages[3].ok
    /\ response.status = 500

\* The score the zone-weighted classifier gives a category: 3 per tag and
\* zone, 1 per tag in the full-page text, 3 for GENERAL_NOTES on a dense page.
TotalScore(c) ==
    LET tags == KEYWORDS[c][2]
        in_text(text) ==
            Cardinality({j \in 1..Len(tags) : Contains(Spell[tags[j]], text)})
        zone_score(z) == ZoneWeight * in_text(lower(Flatten(page.zones[ZoneNames[z]])))
    IN  SumSeq([z \in 1..Len(ZoneNames) |-> zone_score(z)])
            + FullWeight * in_text(lower(Join(page.words)))
            + (IF KEYWORDS[c][1] = "GENERAL_NOTES" /\ Len(Join(page.words)) > DenseLength
               THEN DenseBonus ELSE 0)

\* The score classify_by_keywords gives a drawing type.
KeywordScore(t, text) ==
    LET kws == keywords[t][2]
    IN  SumSeq([j \in 1..Len(kws) |-> count(text, Spell[kws[j]])])

\* The first position of a sequence of scores that holds its maximum.
EarliestMax(scores) ==
    CHOOSE c \in 1..Len(scores) :
        /\ \A d \in 1..Len(scores) : scores[d] <= scores[c]
        /\ \A d \in 1..(c - 1) : scores[d] < scores[c]

\* C10 as stated: of the categories that share the maximum score, the one
\* listed earliest in the keyword taxonomy is returned, by classify_page of
\* app/classifier.py and by classify_by_keywords of main.py alike.
C10_TieGoesToEarliestCategory ==
    /\ ZoneReturned =>
           LET scores == [c \in 1..Len(KEYWORDS) |-> TotalScore(c)]
           IN  (\E c \in 1..Len(KEYWORDS) : scores[c] > 0) =>
                   label = KEYWORDS[EarliestMax(scores)][1]
    /\ (pc = "return" /\ label = None) =>
           LET scores == [t \in 1..Len(keywords) |-> KeywordScore(t, locals.text)]
           IN  (\E t \in 1..Len(keywords) : scores[t] > 0) =>
                   locals.keyword_type = keywords[EarliestMax(scores)][1]

\* The half of C10 that holds: classify_by_keywords of main.py returns the
\* earliest drawing type of those that share the maximum score.
C10_MainTieGoesToEarliestType ==
    (pc = "return" /\ label = None) =>
        LET scores == [t \in 1..Len(keywords) |-> KeywordScore(t, locals.text)]
        IN  (\E t \in 1..Len(keywords) : scores[t] > 0) =>
                locals.keyword_type = keywords[EarliestMax(scores)][1]

\* A tie in main.py between two drawing types, settled for the earlier one.
C10_MainTie ==
    /\ pc = "return" /\ label = None
    /\ \E t, u \in 1..Len(keywords) :
           /\ t < u
           /\ KeywordScore(t, locals.text) = KeywordScore(u, locals.text)
           /\ KeywordScore(t, locals.text) > 0
           /\ \A v \in 1..Len(keywords) :
                  KeywordScore(v, locals.text) <= KeywordScore(t, locals.text)
           /\ locals.keyword_type = keywords[t][1]

====
